---- MODULE Spec2Model ----
(***************************************************************************)
(* ReadNext crawler (crawl.py): the catalog parser, the feed entry filter, *)
(* the per-source crawl in its two modes and the session summary.          *)
(*                                                                         *)
(* Seven specifications share this module:                                 *)
(*   SpecParse   parse_links_file, line by line, over bounded catalogs     *)
(*   SpecFilter  fetch_feed_entries, entry by entry, over bounded feeds    *)
(*   SpecCrawl   one source's crawl, url by url, in either mode            *)
(*   Spec        main's session loop, source by source, and the summary    *)
(*               (FairSpec: the same with the loop's progress)             *)
(*   SpecLocate  discover_feed for one URL, strategy by strategy           *)
(*   SpecModes   the two per-source loops side by side on the same answers *)
(*   SpecSummary _clean_summary, statement by statement                    *)
(* Definitions called "variant" are faulty versions of the definition that *)
(* follows them; the properties are checked to tell the two apart.         *)
(***************************************************************************)
EXTENDS Integers, Sequences, FiniteSets, TLC

VARIABLES
    \* ---- parse_links_file ----
    links_file,     \* the lines of links.txt, each a sequence of characters
    lineno,         \* number of lines consumed by the for loop
    current,        \* <<>> for None, <<source>> otherwise
    entries,        \* the list parse_links_file returns
    ppc,            \* "idle" | "reading" | "done"
    \* ---- fetch_feed_entries ----
    feed,           \* what feedparser.parse returned: [bozo, entries]
    fcutoff,        \* the cutoff instant
    fidx,           \* number of feed entries the for loop has consumed
    fout,           \* the local list "entries" being built
    fpc,            \* "idle" | "filtering" | "done"
    \* ---- one source's crawl (crawl_source, or main's RSS-only loop) ----
    name,           \* the source's name
    urls,           \* the source's urls
    cutoff,         \* the cutoff instant of the run
    no_screenshots, \* args.no_screenshots
    uidx,           \* number of urls the for loop has consumed
    result,         \* the record being built
    requests,       \* every request issued so far for this source, in order
    attempts,       \* per url consumed: what was located and fetched for it
    cpc,            \* "idle" | "crawling" | "returned"
    \* ---- main's session loop ----
    sources,        \* what parse_links_file returned
    sidx,           \* number of sources the for loop has consumed
    results,        \* the list "results"
    summary,        \* the four counters printed at the end
    spc,            \* "idle" | "loop" | "done"
    \* ---- discover_feed for one URL ----
    loc_url,        \* the URL whose feed is looked for
    loc_env,        \* how the page and the probed URLs answer
    loc_tried,      \* the strategies called so far, in order
    loc_reqs,       \* the requests issued so far, in order
    loc_feed_url,   \* <<>> for None, <<feed_url>> once a strategy found one
    lpc,            \* "idle" | "html" | "platform" | "well_known" | "done"
    \* ---- crawl_source and main's RSS-only loop on the same source ----
    both_urls,      \* the source's urls
    both_cutoff,    \* the cutoff instant
    both_idx,       \* number of urls both loops have consumed
    full_out,       \* crawl_source: [result, reqs]
    rss_out,        \* the RSS-only loop: [result, reqs]
    bpc,            \* "idle" | "crawling" | "returned"
    \* ---- _clean_summary ----
    text,           \* the argument: pieces of markup, whitespace and words
    clean,          \* the local "clean"
    mpc             \* "idle" | "get_text" | "sub" | "truncate" | "done"

parseVars == <<links_file, lineno, current, entries, ppc>>
filterVars == <<feed, fcutoff, fidx, fout, fpc>>
crawlVars == <<name, urls, cutoff, no_screenshots, uidx, result, requests, attempts, cpc>>
sessionVars == <<sources, sidx, results, summary, spc>>
locateVars == <<loc_url, loc_env, loc_tried, loc_reqs, loc_feed_url, lpc>>
modesVars == <<both_urls, both_cutoff, both_idx, full_out, rss_out, bpc>>
summaryVars == <<text, clean, mpc>>
vars == <<parseVars, filterVars, crawlVars, sessionVars, locateVars, modesVars, summaryVars>>

\* The parts of the state a specification does not use stay idle.
ParseIdle ==
    /\ links_file = <<>>
    /\ lineno = 0
    /\ current = <<>>
    /\ entries = <<>>
    /\ ppc = "idle"

FilterIdle ==
    /\ feed = [bozo |-> FALSE, entries |-> <<>>]
    /\ fcutoff = 0
    /\ fidx = 0
    /\ fout = <<>>
    /\ fpc = "idle"

NoRecord ==
    [name |-> <<>>, urls |-> <<>>, method |-> "None", feed_url |-> <<>>,
     new_entries |-> <<>>, screenshots |-> <<>>]

CrawlIdle ==
    /\ name = <<>>
    /\ urls = <<>>
    /\ cutoff = 0
    /\ no_screenshots = FALSE
    /\ uidx = 0
    /\ result = NoRecord
    /\ requests = <<>>
    /\ attempts = <<>>
    /\ cpc = "idle"

NoSummary ==
    [rss_count |-> 0, screenshot_count |-> 0, failed_count |-> 0, total_entries |-> 0]

SessionIdle ==
    /\ sources = <<>>
    /\ sidx = 0
    /\ results = <<>>
    /\ summary = NoSummary
    /\ spc = "idle"

NoUrl == [scheme |-> "", netloc |-> <<>>, path |-> <<>>]

NoEnv == [page |-> [ok |-> FALSE, links |-> <<>>]]

LocateIdle ==
    /\ loc_url = NoUrl
    /\ loc_env = NoEnv
    /\ loc_tried = <<>>
    /\ loc_reqs = <<>>
    /\ loc_feed_url = <<>>
    /\ lpc = "idle"

ModesIdle ==
    /\ both_urls = <<>>
    /\ both_cutoff = 0
    /\ both_idx = 0
    /\ full_out = [result |-> NoRecord, reqs |-> <<>>]
    /\ rss_out = [result |-> NoRecord, reqs |-> <<>>]
    /\ bpc = "idle"

SummaryIdle ==
    /\ text = <<>>
    /\ clean = <<>>
    /\ mpc = "idle"

(***************************************************************************)
(* Bounds                                                                  *)
(***************************************************************************)
MaxLines == 5
MaxFeedLen == 2
MaxUrls == 2
MaxSources == 2
MaxPieces == 4

(***************************************************************************)
(* Text.  A line is a sequence of characters; the scheme prefixes are      *)
(* single symbols, everything else is an ordinary character.               *)
(***************************************************************************)
Space == " "

RECURSIVE lstrip(_)
lstrip(s) ==
    IF s # <<>> /\ Head(s) = Space THEN lstrip(Tail(s)) ELSE s

RECURSIVE rstrip(_)
rstrip(s) ==
    IF s # <<>> /\ s[Len(s)] = Space THEN rstrip(SubSeq(s, 1, Len(s) - 1)) ELSE s

\* str.strip()
strip(s) == rstrip(lstrip(s))

\* line.startswith("http://") or line.startswith("https://")
is_url_line(line) ==
    line # <<>> /\ Head(line) \in {"http://", "https://"}

\* The lines a catalog is drawn from (as read, before strip()).
Lines ==
    { <<>>,
      <<" ">>,
      <<"A">>,
      <<" ", "B", " ">>,
      <<"http://", "a">>,
      <<" ", "https://", "b">> }

RECURSIVE SeqsUpTo(_, _)
SeqsUpTo(S, n) ==
    IF n = 0 THEN { <<>> }
    ELSE LET shorter == SeqsUpTo(S, n - 1)
         IN  shorter \cup { Append(s, x) : s \in { t \in shorter : Len(t) = n - 1 }, x \in S }

(***************************************************************************)
(* Feed entries.  A date field of a parsed entry (published_parsed,        *)
(* updated_parsed) is missing, or a time tuple that mktime/fromtimestamp   *)
(* reject (ValueError, OverflowError), or a time tuple standing for the    *)
(* instant t.  Instants are integers.                                      *)
(***************************************************************************)
Times == {0, 1, 2}

NoDate == [kind |-> "none", t |-> 0]
BadDate == [kind |-> "bad", t |-> 0]
DateAt(t) == [kind |-> "ok", t |-> t]

DateFields == {NoDate, BadDate} \cup { DateAt(t) : t \in Times }

\* A parsed feed: entry i carries link i and any two date fields.
FeedEntryLists ==
    UNION { [1..n -> DateFields \X DateFields] : n \in 0..MaxFeedLen }

FeedOf(bozo, dates) ==
    [bozo |-> bozo,
     entries |-> [i \in 1..Len(dates) |->
                    [link |-> i, published |-> dates[i][1], updated |-> dates[i][2]]]]

\* parse_feed_date: the first of published_parsed, updated_parsed that is
\* present and converts; None otherwise.
parse_feed_date(entry) ==
    IF entry.published.kind = "ok" THEN entry.published
    ELSE IF entry.updated.kind = "ok" THEN entry.updated
    ELSE NoDate

\* "if entry_date and entry_date < cutoff: continue"
\* variant: entries exactly at the cutoff are dropped too
before_cutoff_inclusive(entry_date, cut) ==
    entry_date.kind = "ok" /\ entry_date.t <= cut

before_cutoff(entry_date, cut) ==
    entry_date.kind = "ok" /\ entry_date.t < cut

\* the dict appended for a kept entry
new_entry(entry) ==
    [url |-> entry.link, date |-> parse_feed_date(entry)]

RECURSIVE filter_entries(_, _)
filter_entries(es, cut) ==
    IF es = <<>> THEN <<>>
    ELSE IF before_cutoff(parse_feed_date(Head(es)), cut)
         THEN filter_entries(Tail(es), cut)
         ELSE << new_entry(Head(es)) >> \o filter_entries(Tail(es), cut)

\* fetch_feed_entries, given what feedparser.parse returned
fetch_feed_entries(parsed, cut) ==
    IF parsed.bozo /\ parsed.entries = <<>> THEN <<>>
    ELSE filter_entries(parsed.entries, cut)

InitFilter ==
    /\ ParseIdle
    /\ CrawlIdle
    /\ SessionIdle
    /\ LocateIdle
    /\ ModesIdle
    /\ SummaryIdle
    /\ \E b \in BOOLEAN, dates \in FeedEntryLists : feed = FeedOf(b, dates)
    /\ fcutoff \in Times
    /\ fidx = 0
    /\ fout = <<>>
    /\ fpc = "filtering"

\* "if feed.bozo and not feed.entries: return []"
BozoReturn ==
    /\ fpc = "filtering"
    /\ fidx = 0
    /\ feed.bozo /\ feed.entries = <<>>
    /\ fout' = <<>>
    /\ fpc' = "done"
    /\ UNCHANGED <<feed, fcutoff, fidx>>
    /\ UNCHANGED <<parseVars, crawlVars, sessionVars, locateVars, modesVars, summaryVars>>

SkipEntry ==
    /\ fpc = "filtering"
    /\ ~(feed.bozo /\ feed.entries = <<>>)
    /\ fidx < Len(feed.entries)
    /\ before_cutoff(parse_feed_date(feed.entries[fidx + 1]), fcutoff)
    /\ fidx' = fidx + 1
    /\ UNCHANGED <<feed, fcutoff, fout, fpc>>
    /\ UNCHANGED <<parseVars, crawlVars, sessionVars, locateVars, modesVars, summaryVars>>

KeepEntry ==
    /\ fpc = "filtering"
    /\ ~(feed.bozo /\ feed.entries = <<>>)
    /\ fidx < Len(feed.entries)
    /\ ~before_cutoff(parse_feed_date(feed.entries[fidx + 1]), fcutoff)
    /\ fout' = Append(fout, new_entry(feed.entries[fidx + 1]))
    /\ fidx' = fidx + 1
    /\ UNCHANGED <<feed, fcutoff, fpc>>
    /\ UNCHANGED <<parseVars, crawlVars, sessionVars, locateVars, modesVars, summaryVars>>

ReturnEntries ==
    /\ fpc = "filtering"
    /\ ~(feed.bozo /\ feed.entries = <<>>)
    /\ fidx = Len(feed.entries)
    /\ fpc' = "done"
    /\ UNCHANGED <<feed, fcutoff, fidx, fout>>
    /\ UNCHANGED <<parseVars, crawlVars, sessionVars, locateVars, modesVars, summaryVars>>

NextFilter == BozoReturn \/ SkipEntry \/ KeepEntry \/ ReturnEntries

SpecFilter == InitFilter /\ [][NextFilter]_vars

(***************************************************************************)
(* Entry filter claim                                                      *)
(***************************************************************************)
\* The timestamp the claim derives: published first, else updated; a field
\* that does not convert counts as absent.
Convertible(field) == field.kind = "ok"

DerivedStamp(e) ==
    IF Convertible(e.published) THEN << e.published.t >>
    ELSE IF Convertible(e.updated) THEN << e.updated.t >>
    ELSE <<>>

Excluded(e, C) == DerivedStamp(e) # <<>> /\ DerivedStamp(e)[1] < C

NotExcludedLinks(es, C) ==
    LET Kept(e) == ~Excluded(e, C)
        kept == SelectSeq(es, Kept)
    IN  [i \in 1..Len(kept) |-> kept[i].link]

\* C6: the filter returns, in feed order, exactly the entries that have no
\* derivable timestamp or whose derivable timestamp is at or after the cutoff.
C6_FilterExact ==
    fpc = "done" =>
        /\ [i \in 1..Len(fout) |-> fout[i].url] = NotExcludedLinks(feed.entries, fcutoff)
        /\ fout = fetch_feed_entries(feed, fcutoff)

C6_Witness ==
    /\ fpc = "done"
    /\ \E i, j \in 1..Len(feed.entries) :
          /\ feed.entries[i].published = DateAt(fcutoff)
          /\ feed.entries[j].published = BadDate
          /\ feed.entries[j].updated.kind = "ok"
          /\ feed.entries[j].updated.t < fcutoff
          /\ [k \in 1..Len(fout) |-> fout[k].url] = << i >>

(***************************************************************************)
(* URLs.  A URL is scheme, netloc and path; netloc and path are sequences  *)
(* of pieces ("www.", "nitter.net"; "/", "blog").                          *)
(***************************************************************************)
Url(netloc, path) == [scheme |-> "https", netloc |-> netloc, path |-> path]

\* str.removeprefix
removeprefix(s, prefix) ==
    IF s # <<>> /\ Head(s) = prefix THEN Tail(s) ELSE s

\* urlparse(url).netloc.removeprefix("www.")
domain_of(url) == removeprefix(url.netloc, "www.")

SKIP_DOMAINS == { <<"nitter.net">> }

should_skip(url) == domain_of(url) \in SKIP_DOMAINS

WELL_KNOWN_FEED_PATHS ==
    << <<"/", "feed">>, <<"/", "rss">>, <<"/", "rss.xml">>,
       <<"/", "atom.xml">>, <<"/", "feed.xml">>, <<"/", "index.xml">> >>

\* the platform domains, in the dict's order
PLATFORM_FEED_PATTERNS == << "medium.com", "substack.com" >>

\* url.rstrip("/") + "/feed"
RECURSIVE rstrip_slash(_)
rstrip_slash(path) ==
    IF path # <<>> /\ path[Len(path)] = "/"
    THEN rstrip_slash(SubSeq(path, 1, Len(path) - 1)) ELSE path

make_feed_url(url) == [url EXCEPT !.path = rstrip_slash(@) \o <<"/", "feed">>]

\* "rss" in t or "atom" in t, for t a lower-cased type attribute
LinkTypes == {"application/rss+xml", "Application/Atom+XML", "text/css", ""}
link_type_is_feed(t) == t \in {"application/rss+xml", "Application/Atom+XML"}

\* "xml" in c or "rss" in c or "atom" in c, for c a lower-cased content-type
ContentTypes == {"application/xml", "Application/RSS+XML", "text/html", ""}
content_type_is_feed(c) == c \in {"application/xml", "Application/RSS+XML"}

Request(method, url) == [method |-> method, url |-> url]

\* What a function of the discovery chain returns: None (<<>>) or a feed URL,
\* and the requests it issued.
Found(feed_url, reqs) == [feed_url |-> << feed_url >>, reqs |-> reqs]
NotFound(reqs) == [feed_url |-> <<>>, reqs |-> reqs]

(***************************************************************************)
(* The world one URL's processing sees:                                    *)
(*   page      the GET of the page: ok or failed, and its <link            *)
(*             rel="alternate"> tags, each [type, href]; an href is        *)
(*             empty, absolute (a URL) or a path                           *)
(*   platform  the response to the HEAD of the platform candidate          *)
(*   probes    the responses to the HEADs of the well-known paths          *)
(*   parsed    what feedparser.parse gives for the feed URL                *)
(*   shot      "ok" | "error" | "not_installed" for take_screenshot        *)
(* A response is [err, status, ctype]; err is a RequestException.          *)
(***************************************************************************)
NoHref == [kind |-> "empty", url |-> Url(<<>>, <<>>), path |-> <<>>]
AbsHref(u) == [kind |-> "abs", url |-> u, path |-> <<>>]
PathHref(p) == [kind |-> "path", url |-> Url(<<>>, <<>>), path |-> p]

Link(t, href) == [type |-> t, href |-> href]

Resp(status, ctype) == [err |-> FALSE, status |-> status, ctype |-> ctype]
RespError == [err |-> TRUE, status |-> 0, ctype |-> ""]

\* the href of a matching link, made absolute against the page's URL
resolve_href(url, href) ==
    IF href.kind = "abs" THEN href.url
    ELSE IF href.path # <<>> /\ Head(href.path) = "/"
         THEN [url EXCEPT !.path = href.path]
         ELSE [url EXCEPT !.path = <<"/">> \o href.path]

RECURSIVE first_feed_link(_, _)
first_feed_link(url, links) ==
    IF links = <<>> THEN <<>>
    ELSE IF link_type_is_feed(Head(links).type) /\ Head(links).href.kind # "empty"
         THEN << resolve_href(url, Head(links).href) >>
         ELSE first_feed_link(url, Tail(links))

discover_feed_from_html(url, env) ==
    LET reqs == << Request("GET", url) >>
        hit == first_feed_link(url, env.page.links)
    IN  IF ~env.page.ok THEN NotFound(reqs)
        ELSE IF hit # <<>> THEN Found(hit[1], reqs)
        ELSE NotFound(reqs)

\* "resp.status_code == 200"
\* variant: any success status
status_ok_any_2xx(status) == status \in 200..299

status_ok(status) == status = 200

\* discover_feed_well_known, the for loop from path i on
\* variant: the first failed request ends the loop
RECURSIVE probe_well_known_stops_on_error(_, _, _, _)
probe_well_known_stops_on_error(url, env, i, reqs) ==
    IF i > Len(WELL_KNOWN_FEED_PATHS) THEN NotFound(reqs)
    ELSE LET feed_url == [url EXCEPT !.path = WELL_KNOWN_FEED_PATHS[i]]
             resp == env.probes[i]
             sent == Append(reqs, Request("HEAD", feed_url))
         IN  IF resp.err THEN NotFound(sent)
             ELSE IF status_ok(resp.status) /\ content_type_is_feed(resp.ctype)
             THEN Found(feed_url, sent)
             ELSE probe_well_known_stops_on_error(url, env, i + 1, sent)

RECURSIVE probe_well_known(_, _, _, _)
probe_well_known(url, env, i, reqs) ==
    IF i > Len(WELL_KNOWN_FEED_PATHS) THEN NotFound(reqs)
    ELSE LET feed_url == [url EXCEPT !.path = WELL_KNOWN_FEED_PATHS[i]]
             resp == env.probes[i]
             sent == Append(reqs, Request("HEAD", feed_url))
         IN  IF ~resp.err /\ status_ok(resp.status) /\ content_type_is_feed(resp.ctype)
             THEN Found(feed_url, sent)
             ELSE probe_well_known(url, env, i + 1, sent)

discover_feed_well_known(url, env) == probe_well_known(url, env, 1, <<>>)

InDomain(platform_domain, domain) ==
    \E k \in 1..Len(domain) : domain[k] = platform_domain

RECURSIVE probe_platforms(_, _, _, _)
probe_platforms(url, env, i, reqs) ==
    IF i > Len(PLATFORM_FEED_PATTERNS) THEN NotFound(reqs)
    ELSE IF ~InDomain(PLATFORM_FEED_PATTERNS[i], domain_of(url))
         THEN probe_platforms(url, env, i + 1, reqs)
         ELSE LET feed_url == make_feed_url(url)
                  resp == env.platform
                  sent == Append(reqs, Request("HEAD", feed_url))
              IN  IF ~resp.err /\ status_ok(resp.status)
                  THEN Found(feed_url, sent)
                  ELSE probe_platforms(url, env, i + 1, sent)

discover_feed_platform(url, env) == probe_platforms(url, env, 1, <<>>)

discover_feed(url, env) ==
    LET html == discover_feed_from_html(url, env)
        platform == discover_feed_platform(url, env)
        well_known == discover_feed_well_known(url, env)
    IN  IF html.feed_url # <<>> THEN html
        ELSE IF platform.feed_url # <<>>
             THEN [platform EXCEPT !.reqs = html.reqs \o @]
        ELSE [well_known EXCEPT !.reqs = html.reqs \o platform.reqs \o @]

(***************************************************************************)
(* parse_links_file                                                        *)
(***************************************************************************)
\* "if current and current["urls"]: entries.append(current)"
\* variant: the urls test is missing
flush_current_keep_empty(es, cur) ==
    IF cur # <<>> THEN Append(es, cur[1]) ELSE es

flush_current(es, cur) ==
    IF cur # <<>> /\ cur[1].urls # <<>> THEN Append(es, cur[1]) ELSE es

\* the branch for a blank line: flush, current = None
\* variant: current is not reset
blank_line_keeps_current(st) ==
    [entries |-> flush_current(st.entries, st.current), current |-> st.current]

blank_line(st) ==
    [entries |-> flush_current(st.entries, st.current), current |-> <<>>]

\* the branch for a URL line: open an unnamed source if needed, append
url_line(st, line) ==
    LET cur == IF st.current = <<>>
               THEN [name |-> <<>>, urls |-> <<>>]
               ELSE st.current[1]
    IN  [entries |-> st.entries,
         current |-> << [cur EXCEPT !.urls = Append(@, line)] >>]

\* the branch for any other line: a fresh source replaces current
name_line(st, line) ==
    [entries |-> st.entries, current |-> << [name |-> line, urls |-> <<>>] >>]

\* one iteration of "for line in f"
parse_line(st, raw) ==
    LET line == strip(raw)
    IN  IF line = <<>> THEN blank_line(st)
        ELSE IF is_url_line(line) THEN url_line(st, line)
        ELSE name_line(st, line)

RECURSIVE parse_lines(_, _)
parse_lines(st, file) ==
    IF file = <<>> THEN st ELSE parse_lines(parse_line(st, Head(file)), Tail(file))

\* the whole function, on a list of lines
parse_links_file(file) ==
    LET st == parse_lines([entries |-> <<>>, current |-> <<>>], file)
    IN  flush_current(st.entries, st.current)

InitParse ==
    /\ FilterIdle
    /\ CrawlIdle
    /\ SessionIdle
    /\ LocateIdle
    /\ ModesIdle
    /\ SummaryIdle
    /\ links_file \in SeqsUpTo(Lines, MaxLines)
    /\ lineno = 0
    /\ current = <<>>
    /\ entries = <<>>
    /\ ppc = "reading"

ParseState == [entries |-> entries, current |-> current]

ReadBlank ==
    /\ ppc = "reading"
    /\ lineno < Len(links_file)
    /\ strip(links_file[lineno + 1]) = <<>>
    /\ LET st == parse_line(ParseState, links_file[lineno + 1])
       IN  entries' = st.entries /\ current' = st.current
    /\ lineno' = lineno + 1
    /\ UNCHANGED <<links_file, ppc>>
    /\ UNCHANGED <<filterVars, crawlVars, sessionVars, locateVars, modesVars, summaryVars>>

ReadUrl ==
    /\ ppc = "reading"
    /\ lineno < Len(links_file)
    /\ is_url_line(strip(links_file[lineno + 1]))
    /\ LET st == parse_line(ParseState, links_file[lineno + 1])
       IN  entries' = st.entries /\ current' = st.current
    /\ lineno' = lineno + 1
    /\ UNCHANGED <<links_file, ppc>>
    /\ UNCHANGED <<filterVars, crawlVars, sessionVars, locateVars, modesVars, summaryVars>>

ReadName ==
    /\ ppc = "reading"
    /\ lineno < Len(links_file)
    /\ strip(links_file[lineno + 1]) # <<>>
    /\ ~is_url_line(strip(links_file[lineno + 1]))
    /\ LET st == parse_line(ParseState, links_file[lineno + 1])
       IN  entries' = st.entries /\ current' = st.current
    /\ lineno' = lineno + 1
    /\ UNCHANGED <<links_file, ppc>>
    /\ UNCHANGED <<filterVars, crawlVars, sessionVars, locateVars, modesVars, summaryVars>>

EndOfFile ==
    /\ ppc = "reading"
    /\ lineno = Len(links_file)
    /\ entries' = flush_current(entries, current)
    /\ ppc' = "done"
    /\ UNCHANGED <<links_file, lineno, current>>
    /\ UNCHANGED <<filterVars, crawlVars, sessionVars, locateVars, modesVars, summaryVars>>

NextParse == ReadBlank \/ ReadUrl \/ ReadName \/ EndOfFile

SpecParse == InitParse /\ [][NextParse]_vars

(***************************************************************************)
(* take_screenshot and the two per-source loops                            *)
(***************************************************************************)
\* str(filepath.relative_to(...)): the file is named after domain and date
screenshot_path(url) == [domain |-> domain_of(url), date |-> "today"]

\* The call itself is logged as SCREENSHOT, the browser's page.goto as CAPTURE.
\* None without a capture when Playwright is missing; None after a failed
\* capture; the path after a successful one
take_screenshot(url, env) ==
    LET call == Request("SCREENSHOT", url)
    IN  IF env.shot = "not_installed" THEN [path |-> <<>>, reqs |-> << call >>]
        ELSE IF env.shot = "error"
             THEN [path |-> <<>>, reqs |-> << call, Request("CAPTURE", url) >>]
             ELSE [path |-> << screenshot_path(url) >>,
                   reqs |-> << call, Request("CAPTURE", url) >>]

\* the record both loops start from
new_result(nm, us) ==
    [name |-> nm, urls |-> us, method |-> "None", feed_url |-> <<>>,
     new_entries |-> <<>>, screenshots |-> <<>>]

\* crawl_source, "if entries:" branch
\* variant: assignment instead of extend
rss_hit_replaces_entries(res, feed_url, es) ==
    [res EXCEPT !.method = "rss", !.feed_url = << feed_url >>, !.new_entries = es]

\* variant: the feed of the first hit is kept
rss_hit_keeps_first_feed(res, feed_url, es) ==
    [res EXCEPT !.method = "rss",
                !.feed_url = IF @ = <<>> THEN << feed_url >> ELSE @,
                !.new_entries = @ \o es]

rss_hit(res, feed_url, es) ==
    [res EXCEPT !.method = "rss", !.feed_url = << feed_url >>,
                !.new_entries = @ \o es]

\* crawl_source, "# Fallback to screenshot"
\* variant: the method is set without looking at what it was
screenshot_fallback_overrides_method(res, url, env) ==
    LET shot == take_screenshot(url, env)
    IN  [result |->
            IF shot.path = <<>> THEN res
            ELSE [res EXCEPT !.screenshots = Append(@, shot.path[1]),
                             !.method = "screenshot"],
         reqs |-> shot.reqs]

\* variant: a capture that failed marks the record
screenshot_fallback_marks_failure(res, url, env) ==
    LET shot == take_screenshot(url, env)
    IN  [result |->
            IF shot.path = <<>>
            THEN [res EXCEPT !.method = IF @ = "None" THEN "failed" ELSE @]
            ELSE [res EXCEPT !.screenshots = Append(@, shot.path[1]),
                             !.method = IF @ = "None" THEN "screenshot" ELSE @],
         reqs |-> shot.reqs]

screenshot_fallback(res, url, env) ==
    LET shot == take_screenshot(url, env)
    IN  [result |->
            IF shot.path = <<>> THEN res
            ELSE [res EXCEPT !.screenshots = Append(@, shot.path[1]),
                             !.method = IF @ = "None" THEN "screenshot" ELSE @],
         reqs |-> shot.reqs]

\* crawl_source, one iteration of "for url in urls"
\* variant: a feed that was found ends the iteration, entries or not
crawl_source_url_no_fallback_after_feed(res, url, cut, env) ==
    IF should_skip(url) THEN [result |-> res, reqs |-> <<>>]
    ELSE LET found == discover_feed(url, env)
             es == fetch_feed_entries(env.parsed, cut)
             fetch == << Request("PARSE", found.feed_url[1]) >>
         IN  IF found.feed_url # <<>>
             THEN [result |-> IF es # <<>> THEN rss_hit(res, found.feed_url[1], es)
                              ELSE res,
                   reqs |-> found.reqs \o fetch]
             ELSE LET fb == screenshot_fallback(res, url, env)
                  IN  [result |-> fb.result, reqs |-> found.reqs \o fb.reqs]

crawl_source_url(res, url, cut, env) ==
    IF should_skip(url) THEN [result |-> res, reqs |-> <<>>]
    ELSE LET found == discover_feed(url, env)
             es == fetch_feed_entries(env.parsed, cut)
             fetch == << Request("PARSE", found.feed_url[1]) >>
         IN  IF found.feed_url # <<>> /\ es # <<>>
             THEN [result |-> rss_hit(res, found.feed_url[1], es),
                   reqs |-> found.reqs \o fetch]
             ELSE LET fb == screenshot_fallback(res, url, env)
                  IN  [result |-> fb.result,
                       reqs |-> found.reqs
                                \o (IF found.feed_url # <<>> THEN fetch ELSE <<>>)
                                \o fb.reqs]

\* crawl_source, after the loop
\* variant: the default is missing
finalize_keeps_none(res) == res

finalize(res) ==
    IF res.method = "None" THEN [res EXCEPT !.method = "failed"] ELSE res

\* main, RSS-only mode, "if entries:" branch
\* variant: the feed URL is not stored
rss_only_hit_without_feed_url(res, feed_url, es) ==
    [res EXCEPT !.method = "rss", !.new_entries = @ \o es]

rss_only_hit(res, feed_url, es) ==
    [res EXCEPT !.method = "rss", !.feed_url = << feed_url >>,
                !.new_entries = @ \o es]

\* main, RSS-only mode, one iteration of "for url in urls"
\* variant: the flag is ignored and the full-mode body runs
rss_only_url_with_fallback(res, url, cut, env) ==
    crawl_source_url(res, url, cut, env)

rss_only_url(res, url, cut, env) ==
    IF should_skip(url) THEN [result |-> res, reqs |-> <<>>]
    ELSE LET found == discover_feed(url, env)
             es == fetch_feed_entries(env.parsed, cut)
             fetch == << Request("PARSE", found.feed_url[1]) >>
         IN  IF found.feed_url # <<>> /\ es # <<>>
             THEN [result |-> rss_only_hit(res, found.feed_url[1], es),
                   reqs |-> found.reqs \o fetch]
             ELSE [result |-> res,
                   reqs |-> found.reqs
                            \o (IF found.feed_url # <<>> THEN fetch ELSE <<>>)]

\* main, RSS-only mode, after the loop
rss_only_finalize(res) ==
    IF res.method = "None" THEN [res EXCEPT !.method = "no_feed"] ELSE res

(***************************************************************************)
(* Inputs of a source's crawl                                              *)
(***************************************************************************)
PlainUrl == Url(<<"example.com">>, <<"/", "blog">>)
BlockedUrl == Url(<<"www.", "nitter.net">>, <<"/", "user">>)
PlatformUrl == Url(<<"medium.com">>, <<"/", "@writer", "/">>)

SourceUrls == {PlainUrl, BlockedUrl, PlatformUrl}

UrlLists == SeqsUpTo(SourceUrls, MaxUrls) \ { <<>> }

Cutoffs == {1, 2}

PageError == [ok |-> FALSE, links |-> <<>>]
PageNoLinks == [ok |-> TRUE, links |-> <<>>]
PageOwnFeed ==
    [ok |-> TRUE,
     links |-> << Link("text/css", PathHref(<<"/", "style.css">>)),
                  Link("Application/Atom+XML", NoHref),
                  Link("application/rss+xml", PathHref(<<"feed.xml">>)) >>]
PageForeignFeed ==
    [ok |-> TRUE,
     links |-> << Link("application/rss+xml",
                       AbsHref(Url(<<"nitter.net">>, <<"/", "user", "/", "rss">>))) >>]

AllProbes(resp) == [i \in 1..Len(WELL_KNOWN_FEED_PATHS) |-> resp]

\* The worlds a URL of a crawled source may see.
Env(page, platform, probes, parsed, shot) ==
    [page |-> page, platform |-> platform, probes |-> probes,
     parsed |-> parsed, shot |-> shot]

Discoveries ==
    { <<PageOwnFeed, RespError, AllProbes(RespError)>>,
      <<PageForeignFeed, RespError, AllProbes(RespError)>>,
      <<PageError, Resp(404, "text/html"), AllProbes(Resp(404, "text/html"))>>,
      <<PageNoLinks, Resp(200, "text/html"),
        [AllProbes(Resp(200, "text/html")) EXCEPT ![3] = Resp(200, "application/xml")]>> }

ParsedFeeds ==
    { FeedOf(TRUE, <<>>),
      FeedOf(FALSE, << <<DateAt(1), NoDate>> >>),
      FeedOf(FALSE, << <<NoDate, NoDate>>, <<BadDate, DateAt(2)>> >>) }

Shots == {"ok", "error", "not_installed"}

UrlEnvs ==
    { Env(d[1], d[2], d[3], f, sh) : d \in Discoveries, f \in ParsedFeeds, sh \in Shots }

InitCrawl ==
    /\ ParseIdle
    /\ FilterIdle
    /\ SessionIdle
    /\ LocateIdle
    /\ ModesIdle
    /\ SummaryIdle
    /\ name = <<"A">>
    /\ urls \in UrlLists
    /\ cutoff \in Cutoffs
    /\ no_screenshots \in BOOLEAN
    /\ uidx = 0
    /\ result = new_result(name, urls)
    /\ requests = <<>>
    /\ attempts = <<>>
    /\ cpc = "crawling"

\* what was located and fetched for a url, as the collaborators answered
Attempt(url, env) ==
    LET found == discover_feed(url, env)
    IN  [url |-> url,
         skipped |-> should_skip(url),
         located |-> ~should_skip(url) /\ found.feed_url # <<>>,
         feed_url |-> IF should_skip(url) THEN <<>> ELSE found.feed_url,
         entries |-> IF ~should_skip(url) /\ found.feed_url # <<>>
                     THEN fetch_feed_entries(env.parsed, cutoff) ELSE <<>>]

\* the same with what the iteration did: its requests, and take_screenshot's
\* answer if it was called
Logged(out, url, env) ==
    LET a == Attempt(url, env)
        called == \E k \in 1..Len(out.reqs) : out.reqs[k].method = "SCREENSHOT"
    IN  [url |-> a.url, skipped |-> a.skipped, located |-> a.located,
         feed_url |-> a.feed_url, entries |-> a.entries,
         reqs |-> out.reqs,
         shot |-> IF called THEN env.shot ELSE "not_called"]

Iterate(out, env) ==
        /\ result' = out.result
        /\ requests' = requests \o out.reqs
        /\ attempts' = Append(attempts, Logged(out, urls[uidx + 1], env))
        /\ uidx' = uidx + 1
        /\ UNCHANGED <<name, urls, cutoff, no_screenshots, cpc>>
        /\ UNCHANGED <<parseVars, filterVars, sessionVars, locateVars, modesVars, summaryVars>>

InLoop(mode) ==
    cpc = "crawling" /\ no_screenshots = mode /\ uidx < Len(urls)

CrawlSkip ==
    /\ InLoop(FALSE)
    /\ should_skip(urls[uidx + 1])
    /\ \E env \in UrlEnvs : Iterate(crawl_source_url(result, urls[uidx + 1], cutoff, env), env)

CrawlRssHit ==
    /\ InLoop(FALSE)
    /\ ~should_skip(urls[uidx + 1])
    /\ \E env \in UrlEnvs :
          /\ Attempt(urls[uidx + 1], env).entries # <<>>
          /\ Iterate(crawl_source_url(result, urls[uidx + 1], cutoff, env), env)

CrawlFallback ==
    /\ InLoop(FALSE)
    /\ ~should_skip(urls[uidx + 1])
    /\ \E env \in UrlEnvs :
          /\ Attempt(urls[uidx + 1], env).entries = <<>>
          /\ Iterate(crawl_source_url(result, urls[uidx + 1], cutoff, env), env)

CrawlReturn ==
    /\ cpc = "crawling" /\ ~no_screenshots /\ uidx = Len(urls)
    /\ result' = finalize(result)
    /\ cpc' = "returned"
    /\ UNCHANGED <<name, urls, cutoff, no_screenshots, uidx, requests, attempts>>
    /\ UNCHANGED <<parseVars, filterVars, sessionVars, locateVars, modesVars, summaryVars>>

RssOnlySkip ==
    /\ InLoop(TRUE)
    /\ should_skip(urls[uidx + 1])
    /\ \E env \in UrlEnvs : Iterate(rss_only_url(result, urls[uidx + 1], cutoff, env), env)

RssOnlyHit ==
    /\ InLoop(TRUE)
    /\ ~should_skip(urls[uidx + 1])
    /\ \E env \in UrlEnvs :
          /\ Attempt(urls[uidx + 1], env).entries # <<>>
          /\ Iterate(rss_only_url(result, urls[uidx + 1], cutoff, env), env)

RssOnlyMiss ==
    /\ InLoop(TRUE)
    /\ ~should_skip(urls[uidx + 1])
    /\ \E env \in UrlEnvs :
          /\ Attempt(urls[uidx + 1], env).entries = <<>>
          /\ Iterate(rss_only_url(result, urls[uidx + 1], cutoff, env), env)

RssOnlyReturn ==
    /\ cpc = "crawling" /\ no_screenshots /\ uidx = Len(urls)
    /\ result' = rss_only_finalize(result)
    /\ cpc' = "returned"
    /\ UNCHANGED <<name, urls, cutoff, no_screenshots, uidx, requests, attempts>>
    /\ UNCHANGED <<parseVars, filterVars, sessionVars, locateVars, modesVars, summaryVars>>

NextCrawl ==
    \/ CrawlSkip \/ CrawlRssHit \/ CrawlFallback \/ CrawlReturn
    \/ RssOnlySkip \/ RssOnlyHit \/ RssOnlyMiss \/ RssOnlyReturn

SpecCrawl == InitCrawl /\ [][NextCrawl]_vars

(***************************************************************************)
(* main: the session loop and the summary                                  *)
(***************************************************************************)
\* crawl_source as a whole: the loop over the urls, then the default method
RECURSIVE crawl_urls(_, _, _, _, _)
crawl_urls(res, us, cut, envs, i) ==
    IF i > Len(us) THEN res
    ELSE crawl_urls(crawl_source_url(res, us[i], cut, envs[i]).result, us, cut, envs, i + 1)

crawl_source(nm, us, cut, envs) ==
    finalize(crawl_urls(new_result(nm, us), us, cut, envs, 1))

\* main's inline RSS-only loop as a whole
RECURSIVE rss_only_urls(_, _, _, _, _)
rss_only_urls(res, us, cut, envs, i) ==
    IF i > Len(us) THEN res
    ELSE rss_only_urls(rss_only_url(res, us[i], cut, envs[i]).result, us, cut, envs, i + 1)

rss_only_source(nm, us, cut, envs) ==
    rss_only_finalize(rss_only_urls(new_result(nm, us), us, cut, envs, 1))

\* results.append(...)
\* variant: a source that failed leaves no record
collect_unless_failed(rs, rec) ==
    IF rec.method \in {"failed", "no_feed"} THEN rs ELSE Append(rs, rec)

collect(rs, rec) == Append(rs, rec)

\* sum(1 for r in results if r["method"] in methods)
RECURSIVE count_methods(_, _)
count_methods(rs, methods) ==
    IF rs = <<>> THEN 0
    ELSE (IF Head(rs).method \in methods THEN 1 ELSE 0) + count_methods(Tail(rs), methods)

\* sum(len(r["new_entries"]) for r in results)
RECURSIVE count_entries(_)
count_entries(rs) ==
    IF rs = <<>> THEN 0 ELSE Len(Head(rs).new_entries) + count_entries(Tail(rs))

\* r["method"] in ("failed", "no_feed")
\* variant: no_feed is not counted
failed_methods_without_no_feed == {"failed"}

failed_methods == {"failed", "no_feed"}

summarize(rs) ==
    [rss_count |-> count_methods(rs, {"rss"}),
     screenshot_count |-> count_methods(rs, {"screenshot"}),
     failed_count |-> count_methods(rs, failed_methods),
     total_entries |-> count_entries(rs)]

\* The catalogs of a session: sources as the parser emits them (urls
\* non-empty, names possibly empty or repeated).
SessionSources ==
    { [name |-> <<"A">>, urls |-> << PlainUrl >>],
      [name |-> <<>>, urls |-> << BlockedUrl, PlainUrl >>],
      [name |-> <<"A">>, urls |-> << PlatformUrl >>] }

\* The worlds a URL may see during a session: a feed with entries, a
\* malformed feed, an unreachable site, with captures failing or succeeding.
SessionEnvs ==
    { Env(PageOwnFeed, RespError, AllProbes(RespError),
          FeedOf(FALSE, << <<DateAt(1), NoDate>> >>), "ok"),
      Env(PageOwnFeed, RespError, AllProbes(RespError), FeedOf(TRUE, <<>>), "error"),
      Env(PageError, RespError, AllProbes(RespError), FeedOf(TRUE, <<>>), "error"),
      Env(PageError, Resp(404, ""), AllProbes(Resp(404, "")), FeedOf(TRUE, <<>>), "ok") }

Init ==
    /\ ParseIdle
    /\ FilterIdle
    /\ name = <<>>
    /\ urls = <<>>
    /\ cutoff \in Cutoffs
    /\ no_screenshots \in BOOLEAN
    /\ uidx = 0
    /\ result = NoRecord
    /\ requests = <<>>
    /\ attempts = <<>>
    /\ cpc = "idle"
    /\ sources \in SeqsUpTo(SessionSources, MaxSources)
    /\ sidx = 0
    /\ results = <<>>
    /\ summary = NoSummary
    /\ spc = "loop"
    /\ LocateIdle
    /\ ModesIdle
    /\ SummaryIdle

SessionFrame ==
    /\ UNCHANGED <<name, urls, cutoff, no_screenshots, uidx, result, requests, attempts, cpc>>
    /\ UNCHANGED <<parseVars, filterVars, locateVars, modesVars, summaryVars>>

\* one iteration of "for source in sources", full mode
MainCrawlSource ==
    /\ spc = "loop" /\ sidx < Len(sources) /\ ~no_screenshots
    /\ LET source == sources[sidx + 1]
       IN  \E envs \in [1..Len(source.urls) -> SessionEnvs] :
              results' = collect(results, crawl_source(source.name, source.urls, cutoff, envs))
    /\ sidx' = sidx + 1
    /\ UNCHANGED <<sources, summary, spc>>
    /\ SessionFrame

\* one iteration of "for source in sources", RSS-only mode
MainRssOnlySource ==
    /\ spc = "loop" /\ sidx < Len(sources) /\ no_screenshots
    /\ LET source == sources[sidx + 1]
       IN  \E envs \in [1..Len(source.urls) -> SessionEnvs] :
              results' = collect(results, rss_only_source(source.name, source.urls, cutoff, envs))
    /\ sidx' = sidx + 1
    /\ UNCHANGED <<sources, summary, spc>>
    /\ SessionFrame

\* after the loop: the state is written and the summary computed
MainSummary ==
    /\ spc = "loop" /\ sidx = Len(sources)
    /\ summary' = summarize(results)
    /\ spc' = "done"
    /\ UNCHANGED <<sources, sidx, results>>
    /\ SessionFrame

Next == MainCrawlSource \/ MainRssOnlySource \/ MainSummary

Spec == Init /\ [][Next]_vars

\* The loop is sequential and every call in it returns: a step that can be
\* taken is taken.
FairSpec == Spec /\ WF_vars(Next)

(***************************************************************************)
(* Session claims                                                          *)
(***************************************************************************)
RecordsMatchSources ==
    /\ Len(results) = Len(sources)
    /\ \A i \in 1..Len(sources) :
          /\ results[i].name = sources[i].name
          /\ results[i].urls = sources[i].urls

RECURSIVE SumEntries(_, _)
SumEntries(rs, i) ==
    IF i > Len(rs) THEN 0 ELSE Len(rs[i].new_entries) + SumEntries(rs, i + 1)

\* C7: the three method counters add up to the number of records and
\* total_entries is the sum of the records' entry counts.
C7_SummaryAddsUp ==
    spc = "done" =>
        /\ summary.rss_count + summary.screenshot_count + summary.failed_count
              = Len(results)
        /\ summary.total_entries = SumEntries(results, 1)

C7_Witness ==
    /\ spc = "done"
    /\ Len(results) = 2
    /\ summary.rss_count = 1
    /\ summary.failed_count = 1
    /\ summary.total_entries >= 1

(***************************************************************************)
(* Per-source crawl claims                                                 *)
(***************************************************************************)
Methods == {"rss", "screenshot", "failed", "no_feed"}

RECURSIVE AllEntries(_)
AllEntries(as) ==
    IF as = <<>> THEN <<>> ELSE Head(as).entries \o AllEntries(Tail(as))

UrlsOf(reqs, method) ==
    LET IsMethod(r) == r.method = method
        sel == SelectSeq(reqs, IsMethod)
    IN  [i \in 1..Len(sel) |-> sel[i].url]

NotSkipped(url) == ~should_skip(url)

\* C1: the record a source's crawl returns has one of the four methods, never
\* None; with no entries from any URL and no successful capture it is
\* "failed" in full mode and "no_feed" in RSS-only mode.
C1_MethodAlwaysSet ==
    cpc = "returned" =>
        /\ result.method \in Methods
        /\ (AllEntries(attempts) = <<>> /\ result.screenshots = <<>>) =>
              result.method = IF no_screenshots THEN "no_feed" ELSE "failed"

C1_Witness ==
    /\ cpc = "returned"
    /\ ~no_screenshots
    /\ result.method = "failed"
    /\ \E k \in 1..Len(attempts) : attempts[k].skipped
    /\ \E k \in 1..Len(attempts) : ~attempts[k].skipped /\ ~attempts[k].located

\* C3: no request of the crawl (page GET, HEAD probe, feed fetch, capture)
\* goes to a URL on a skip-listed host, the discovered feed URLs included.
C3_NoRequestToSkippedHost ==
    \A i \in 1..Len(requests) : ~should_skip(requests[i].url)

\* C4: the returned entries are the filtered entries of every non-skipped URL
\* with a located feed, concatenated in URL order; every non-skipped URL is
\* attempted whatever happened before it; the method is "rss" whenever some
\* URL contributed an entry.
C4_EntriesAccumulate ==
    cpc = "returned" =>
        /\ result.new_entries = AllEntries(attempts)
        /\ UrlsOf(requests, "GET") = SelectSeq(urls, NotSkipped)
        /\ AllEntries(attempts) # <<>> => result.method = "rss"

C4_Witness ==
    /\ cpc = "returned"
    /\ Len(attempts) = 2
    /\ Len(attempts[1].entries) = 2
    /\ Len(attempts[2].entries) = 1
    /\ result.method = "rss"
    /\ result.new_entries = attempts[1].entries \o attempts[2].entries

\* C5: in RSS-only mode no capture is ever requested and screenshots stays
\* empty; a source whose sole URL has no discoverable feed ends as "no_feed"
\* with no entries and no screenshots.
C5_RssOnlyNeverCaptures ==
    no_screenshots =>
        /\ UrlsOf(requests, "CAPTURE") = <<>>
        /\ result.screenshots = <<>>
        /\ (cpc = "returned" /\ Len(urls) = 1 /\ ~attempts[1].located) =>
              /\ result.method = "no_feed"
              /\ result.new_entries = <<>>

C5_Witness ==
    /\ no_screenshots
    /\ cpc = "returned"
    /\ urls = << PlainUrl >>
    /\ ~attempts[1].located
    /\ result.method = "no_feed"
    /\ result.new_entries = <<>> /\ result.screenshots = <<>>

(***************************************************************************)
(* Catalog claims                                                          *)
(***************************************************************************)
\* The serialized form the round-trip claim speaks of: per source the name
\* line if the name is non-empty, then its URL lines, then a blank line.
serialize_source(src) ==
    (IF src.name # <<>> THEN << src.name >> ELSE <<>>) \o src.urls \o << <<>> >>

RECURSIVE serialize(_)
serialize(srcs) ==
    IF srcs = <<>> THEN <<>> ELSE serialize_source(Head(srcs)) \o serialize(Tail(srcs))

\* The blank-line-delimited blocks of a catalog, each a list of stripped lines.
RECURSIVE SplitBlocks(_, _)
SplitBlocks(file, block) ==
    LET closed == IF block = <<>> THEN <<>> ELSE << block >>
    IN  IF file = <<>> THEN closed
        ELSE IF strip(Head(file)) = <<>> THEN closed \o SplitBlocks(Tail(file), <<>>)
        ELSE SplitBlocks(Tail(file), Append(block, strip(Head(file))))

BlocksOf(file) == SplitBlocks(file, <<>>)

HasUrls(src) == src.urls # <<>>

\* The source the catalog grammar assigns to one block.
BlockSource(block) ==
    [name |-> IF is_url_line(block[1]) THEN <<>> ELSE block[1],
     urls |-> SelectSeq(block, is_url_line)]

BlockSources(file) ==
    LET bs == BlocksOf(file)
    IN  SelectSeq([i \in 1..Len(bs) |-> BlockSource(bs[i])], HasUrls)

\* C8: after parsing, the sources are, block by block, the block's first
\* non-URL line as name (empty if the block starts with a URL) with all URL
\* lines of the block in order, so no URL line of the input is lost.
C8_BlockNameAndUrls ==
    ppc = "done" => entries = BlockSources(links_file)

\* C9: every source the parser has emitted has a non-empty urls list; blocks
\* with no URL line are dropped and parsing still completes.
C9_UrlsNonEmpty ==
    \A i \in 1..Len(entries) : entries[i].urls # <<>>

C9_Witness ==
    /\ ppc = "done"
    /\ entries # <<>>
    /\ \E i \in 1..Len(BlocksOf(links_file)) :
          SelectSeq(BlocksOf(links_file)[i], is_url_line) = <<>>

\* C10: parsing the serialized form of the parser's output gives that output
\* again, also with empty names and with duplicate names.
C10_RoundTrip ==
    ppc = "done" => parse_links_file(serialize(entries)) = entries

C10_Witness ==
    /\ ppc = "done"
    /\ \E i, j \in 1..Len(entries) : i < j /\ entries[i].name = entries[j].name
    /\ \E i \in 1..Len(entries) : entries[i].name = <<>>
    /\ parse_links_file(serialize(entries)) = entries

(***************************************************************************)
(* Per-source claims: the screenshot fallback and the method               *)
(***************************************************************************)
IsScreenshotCall(r) == r.method = "SCREENSHOT"

ScreenshotCalls(a) == SelectSeq(a.reqs, IsScreenshotCall)

\* C14: in full mode take_screenshot is called for a URL at most once, and
\* exactly when the URL is not skip-listed and either no feed was located or
\* the located feed yielded zero entries; it is never called for a skip-listed
\* URL or for a URL whose feed yielded an entry.
C14_CaptureExactlyWithoutEntries ==
    (~no_screenshots /\ cpc # "idle") =>
        \A k \in 1..Len(attempts) :
            LET a == attempts[k]
            IN  /\ Len(ScreenshotCalls(a)) =
                       IF ~a.skipped /\ (~a.located \/ a.entries = <<>>) THEN 1 ELSE 0
                /\ \A c \in 1..Len(ScreenshotCalls(a)) : ScreenshotCalls(a)[c].url = a.url

C14_Witness ==
    /\ ~no_screenshots
    /\ cpc = "returned"
    /\ Len(attempts) = 2
    /\ attempts[1].located /\ attempts[1].entries = <<>>
    /\ Len(ScreenshotCalls(attempts[1])) = 1
    /\ attempts[2].entries # <<>>
    /\ ScreenshotCalls(attempts[2]) = <<>>

Stepped == Len(attempts') = Len(attempts) + 1

LastAttempt == attempts'[Len(attempts')]

MethodStep ==
    /\ result.method = "rss" => result'.method = "rss"
    /\ (result'.method = "screenshot" /\ result.method # "screenshot") =>
          /\ result.method = "None"
          /\ Stepped /\ LastAttempt.shot = "ok"
    /\ (Stepped /\ LastAttempt.shot = "ok" /\ result.method = "None") =>
          result'.method = "screenshot"
    /\ (Stepped /\ LastAttempt.entries # <<>>) => result'.method = "rss"

\* C15: a successful capture sets method screenshot only if no method is set
\* yet; once the method is rss no later step of the crawl changes it; a
\* screenshot method left by an earlier URL is replaced by rss when a later
\* URL yields entries.
C15_MethodPrecedence == [][MethodStep]_vars

C15_Witness ==
    /\ cpc = "returned"
    /\ Len(attempts) = 2
    /\ attempts[1].shot = "ok"
    /\ attempts[2].entries # <<>>
    /\ result.screenshots # <<>>
    /\ result.method = "rss"

NothingSucceeded ==
    /\ AllEntries(attempts) = <<>>
    /\ \A k \in 1..Len(attempts) : attempts[k].shot # "ok"

FailedCaptureStep ==
    /\ (Stepped /\ LastAttempt.shot \in {"error", "not_installed"}) =>
          /\ result' = result
          /\ uidx' = uidx + 1
          /\ cpc' = "crawling"
    /\ (~no_screenshots /\ cpc = "crawling" /\ cpc' = "returned" /\ NothingSucceeded) =>
          /\ result.method = "None"
          /\ result' = [result EXCEPT !.method = "failed"]

\* C16: a failed capture leaves the whole record unchanged and the loop goes
\* on with the next URL; if nothing else succeeds the method stays unset
\* until the end of the crawl sets it to failed.
C16_FailedCaptureLeavesRecord == [][FailedCaptureStep]_vars

C16_Witness ==
    /\ cpc = "returned"
    /\ Len(attempts) = 2
    /\ attempts[1].shot = "error"
    /\ attempts[2].shot = "not_installed"
    /\ result = [new_result(name, urls) EXCEPT !.method = "failed"]

Contributing == { k \in 1..Len(attempts) : attempts[k].entries # <<>> }

LastContributingFeed ==
    IF Contributing = {} THEN <<>>
    ELSE attempts[CHOOSE k \in Contributing : \A j \in Contributing : j <= k].feed_url

\* C19: in every state of a source's crawl, in both modes, the method is rss
\* exactly when the entries are non-empty, exactly when feed_url is set; and
\* feed_url is the feed located for the latest URL that contributed an entry.
C19_RssIffEntriesIffFeed ==
    cpc # "idle" =>
        /\ (result.method = "rss") <=> (result.new_entries # <<>>)
        /\ (result.new_entries # <<>>) <=> (result.feed_url # <<>>)
        /\ result.feed_url = LastContributingFeed

C19_Witness ==
    /\ cpc = "crawling"
    /\ Len(attempts) = 2
    /\ attempts[1].entries # <<>>
    /\ attempts[2].entries # <<>>
    /\ attempts[1].feed_url # attempts[2].feed_url
    /\ result.feed_url = attempts[2].feed_url
    /\ result.method = "rss"

SuccessfulCaptures == { k \in 1..Len(attempts) : attempts[k].shot = "ok" }

\* C20: in full mode every successful capture adds a distinct path: the
\* screenshots list has no duplicates and is as long as the number of URLs
\* whose capture succeeded, also when two URLs share a host.
C20_ScreenshotPathsDistinct ==
    (~no_screenshots /\ cpc # "idle") =>
        /\ Len(result.screenshots) = Cardinality(SuccessfulCaptures)
        /\ \A i, j \in 1..Len(result.screenshots) :
              i # j => result.screenshots[i] # result.screenshots[j]

(***************************************************************************)
(* discover_feed for one URL, strategy by strategy                         *)
(***************************************************************************)
\* the function a strategy's name stands for
run_strategy(strategy, url, env) ==
    IF strategy = "html" THEN discover_feed_from_html(url, env)
    ELSE IF strategy = "platform" THEN discover_feed_platform(url, env)
    ELSE discover_feed_well_known(url, env)

\* discover_feed: what is called after a strategy that returned None
\* variant: the well-known paths are probed before the platform pattern
strategy_after_swapped(strategy) ==
    IF strategy = "html" THEN "well_known"
    ELSE IF strategy = "well_known" THEN "platform"
    ELSE "done"

strategy_after(strategy) ==
    IF strategy = "html" THEN "platform"
    ELSE IF strategy = "platform" THEN "well_known"
    ELSE "done"

SubstackUrl == Url(<<"writer.", "substack.com">>, <<"/">>)

LocateUrls == {PlainUrl, PlatformUrl, SubstackUrl}

LocatePages == {PageError, PageNoLinks, PageOwnFeed, PageForeignFeed}

PlatformResps ==
    {RespError, Resp(200, "text/html"), Resp(204, ""), Resp(404, "text/html")}

ProbeResps ==
    {RespError, Resp(200, "application/xml"), Resp(200, "Application/RSS+XML"),
     Resp(200, "text/html"), Resp(204, "application/xml"), Resp(404, "text/html")}

\* every path answers alike, but for one
ProbeProfiles ==
    { [AllProbes(b) EXCEPT ![i] = r] :
        b \in ProbeResps, i \in 1..Len(WELL_KNOWN_FEED_PATHS), r \in ProbeResps }

LocateEnvs ==
    { Env(pg, pf, pr, FeedOf(TRUE, <<>>), "not_installed") :
        pg \in LocatePages, pf \in PlatformResps, pr \in ProbeProfiles }

InitLocate ==
    /\ ParseIdle
    /\ FilterIdle
    /\ CrawlIdle
    /\ SessionIdle
    /\ ModesIdle
    /\ SummaryIdle
    /\ loc_url \in LocateUrls
    /\ loc_env \in LocateEnvs
    /\ loc_tried = <<>>
    /\ loc_reqs = <<>>
    /\ loc_feed_url = <<>>
    /\ lpc = "html"

\* one "feed_url = discover_feed_...(url)" and the "if feed_url: return" after it
Locate(strategy) ==
    /\ LET out == run_strategy(strategy, loc_url, loc_env)
       IN  /\ loc_tried' = Append(loc_tried, strategy)
           /\ loc_reqs' = loc_reqs \o out.reqs
           /\ loc_feed_url' = out.feed_url
           /\ lpc' = IF out.feed_url # <<>> THEN "done" ELSE strategy_after(strategy)
    /\ UNCHANGED <<loc_url, loc_env>>
    /\ UNCHANGED <<parseVars, filterVars, crawlVars, sessionVars, modesVars, summaryVars>>

LocateHtml ==
    /\ lpc = "html"
    /\ Locate("html")

LocatePlatform ==
    /\ lpc = "platform"
    /\ Locate("platform")

LocateWellKnown ==
    /\ lpc = "well_known"
    /\ Locate("well_known")

NextLocate == LocateHtml \/ LocatePlatform \/ LocateWellKnown

SpecLocate == InitLocate /\ [][NextLocate]_vars

(***************************************************************************)
(* Feed location claims                                                    *)
(***************************************************************************)
StrategyOrder == <<"html", "platform", "well_known">>

IsPrefix(s, t) == Len(s) <= Len(t) /\ SubSeq(t, 1, Len(s)) = s

Returned(strategy) == run_strategy(strategy, loc_url, loc_env).feed_url

LocateInOrder ==
    lpc # "idle" =>
        /\ IsPrefix(loc_tried, StrategyOrder)
        /\ \A k \in 1..(Len(loc_tried) - 1) : Returned(loc_tried[k]) = <<>>
        /\ loc_feed_url # <<>> =>
              /\ lpc = "done"
              /\ loc_feed_url = Returned(loc_tried[Len(loc_tried)])
              /\ loc_reqs[Len(loc_reqs)].url =
                    IF loc_tried[Len(loc_tried)] = "html" THEN loc_url
                    ELSE loc_feed_url[1]
        /\ (lpc = "done" /\ loc_feed_url = <<>>) =>
              /\ loc_tried = StrategyOrder
              /\ \A k \in 1..3 : Returned(StrategyOrder[k]) = <<>>
        /\ lpc = "done" =>
              /\ loc_feed_url = discover_feed(loc_url, loc_env).feed_url
              /\ loc_reqs = discover_feed(loc_url, loc_env).reqs

\* C11: within one feed-location call the strategies run in the order HTML
\* link, platform pattern, well-known paths, each at most once and each only
\* after the earlier ones returned nothing; nothing is requested or tried once
\* a strategy has succeeded; the call returns the first success, or none when
\* all three fail.
C11_StrategiesInOrder ==
    /\ []LocateInOrder
    /\ [][loc_feed_url # <<>> => UNCHANGED <<loc_tried, loc_reqs, loc_feed_url>>]_vars

C11_Witness ==
    /\ lpc = "done"
    /\ loc_url = PlatformUrl
    /\ loc_tried = StrategyOrder
    /\ loc_feed_url = << [loc_url EXCEPT !.path = WELL_KNOWN_FEED_PATHS[2]] >>
    /\ Len(loc_reqs) = 4

\* The acceptance rule of the two probing strategies, for a set of accepted
\* status codes.
MatchesPlatform(url) ==
    \E i \in 1..Len(PLATFORM_FEED_PATTERNS) :
        InDomain(PLATFORM_FEED_PATTERNS[i], domain_of(url))

PlatformAccepts(url, env, statuses) ==
    IF MatchesPlatform(url) /\ ~env.platform.err /\ env.platform.status \in statuses
    THEN << make_feed_url(url) >> ELSE <<>>

WellKnownHits(env, statuses) ==
    { i \in 1..Len(WELL_KNOWN_FEED_PATHS) :
        /\ ~env.probes[i].err
        /\ env.probes[i].status \in statuses
        /\ content_type_is_feed(env.probes[i].ctype) }

WellKnownAccepts(url, env, statuses) ==
    LET hits == WellKnownHits(env, statuses)
    IN  IF hits = {} THEN <<>>
        ELSE LET first == CHOOSE i \in hits : \A j \in hits : i <= j
             IN  << [url EXCEPT !.path = WELL_KNOWN_FEED_PATHS[first]] >>

ProbesAccept(statuses) ==
    lpc = "done" =>
        /\ Len(loc_tried) = 2 =>
              loc_feed_url = PlatformAccepts(loc_url, loc_env, statuses)
        /\ Len(loc_tried) = 3 =>
              /\ PlatformAccepts(loc_url, loc_env, statuses) = <<>>
              /\ loc_feed_url = WellKnownAccepts(loc_url, loc_env, statuses)

\* C12 as stated: a HEAD probe is accepted for every 2xx status; the platform
\* strategy accepts such an answer whatever its content-type, the well-known
\* strategy returns the first path in list order whose answer is 2xx with a
\* content-type containing xml, rss or atom.
C12_ProbeAccepts2xx == ProbesAccept(200..299)

\* C12 amended: the same with status 200 as the only accepted status.
C12_ProbeAccepts200 == ProbesAccept({200})

C12_Witness ==
    /\ lpc = "done"
    /\ loc_url = PlatformUrl
    /\ loc_env.platform = Resp(204, "")
    /\ loc_env.probes[1] = Resp(204, "application/xml")
    /\ loc_env.probes[2] = Resp(200, "application/xml")
    /\ loc_feed_url = << [loc_url EXCEPT !.path = WELL_KNOWN_FEED_PATHS[2]] >>

\* C13: a network error inside a strategy counts as "found nothing": after a
\* failed page fetch the platform pattern and the well-known paths are still
\* tried, after a failed platform probe the well-known paths are still tried,
\* after a failed probe of one path the next path is still probed, and the
\* call ends with none when nothing else succeeds.
ProbedPaths == { r.url.path : r \in { loc_reqs[k] : k \in 1..Len(loc_reqs) } }

C13_ErrorsFoundNothing ==
    lpc = "done" =>
        /\ ~loc_env.page.ok => Len(loc_tried) >= 2
        /\ (Len(loc_tried) >= 2 /\ loc_env.platform.err) => Len(loc_tried) = 3
        /\ \A i \in 1..(Len(WELL_KNOWN_FEED_PATHS) - 1) :
              ( /\ Len(loc_tried) = 3
                /\ loc_env.probes[i].err
                /\ \A j \in 1..i : j \notin WellKnownHits(loc_env, {200}) )
              => WELL_KNOWN_FEED_PATHS[i + 1] \in ProbedPaths
        /\ ( /\ ~loc_env.page.ok
             /\ loc_env.platform.err
             /\ \A i \in 1..Len(WELL_KNOWN_FEED_PATHS) : loc_env.probes[i].err )
           => /\ loc_feed_url = <<>>
              /\ Len(loc_reqs) =
                    1 + (IF MatchesPlatform(loc_url) THEN 1 ELSE 0)
                      + Len(WELL_KNOWN_FEED_PATHS)

C13_Witness ==
    /\ lpc = "done"
    /\ loc_url = PlatformUrl
    /\ ~loc_env.page.ok
    /\ loc_env.platform.err
    /\ loc_env.probes[1].err
    /\ loc_env.probes[2] = Resp(200, "application/xml")
    /\ loc_feed_url = << [loc_url EXCEPT !.path = WELL_KNOWN_FEED_PATHS[2]] >>

(***************************************************************************)
(* The two per-source loops side by side: crawl_source and main's RSS-only *)
(* loop take the same source and cutoff and see the same answers.          *)
(***************************************************************************)
InitModes ==
    /\ ParseIdle
    /\ FilterIdle
    /\ CrawlIdle
    /\ SessionIdle
    /\ LocateIdle
    /\ SummaryIdle
    /\ both_urls \in UrlLists
    /\ both_cutoff \in Cutoffs
    /\ both_idx = 0
    /\ full_out = [result |-> new_result(<<"A">>, both_urls), reqs |-> <<>>]
    /\ rss_out = [result |-> new_result(<<"A">>, both_urls), reqs |-> <<>>]
    /\ bpc = "crawling"

\* one iteration of "for url in urls" in each loop
BothUrl ==
    /\ bpc = "crawling" /\ both_idx < Len(both_urls)
    /\ \E env \in UrlEnvs :
          LET url == both_urls[both_idx + 1]
              f == crawl_source_url(full_out.result, url, both_cutoff, env)
              r == rss_only_url(rss_out.result, url, both_cutoff, env)
          IN  /\ full_out' = [result |-> f.result, reqs |-> full_out.reqs \o f.reqs]
              /\ rss_out' = [result |-> r.result, reqs |-> rss_out.reqs \o r.reqs]
    /\ both_idx' = both_idx + 1
    /\ UNCHANGED <<both_urls, both_cutoff, bpc>>
    /\ UNCHANGED <<parseVars, filterVars, crawlVars, sessionVars, locateVars, summaryVars>>

\* the default method after each loop
BothReturn ==
    /\ bpc = "crawling" /\ both_idx = Len(both_urls)
    /\ full_out' = [full_out EXCEPT !.result = finalize(@)]
    /\ rss_out' = [rss_out EXCEPT !.result = rss_only_finalize(@)]
    /\ bpc' = "returned"
    /\ UNCHANGED <<both_urls, both_cutoff, both_idx>>
    /\ UNCHANGED <<parseVars, filterVars, crawlVars, sessionVars, locateVars, summaryVars>>

NextModes == BothUrl \/ BothReturn

SpecModes == InitModes /\ [][NextModes]_vars

IsFeedRequest(r) == r.method \in {"GET", "HEAD", "PARSE"}

\* C17: on the same source, cutoff and answers the full-mode record and the
\* RSS-only record have equal feed_url and equal entries, the two loops issue
\* the same discovery and feed requests in the same order, and the method is
\* rss in one exactly when in the other; the records differ only in the
\* screenshots and in the method when it is not rss.
C17_ModesAgree ==
    bpc # "idle" =>
        /\ full_out.result.feed_url = rss_out.result.feed_url
        /\ full_out.result.new_entries = rss_out.result.new_entries
        /\ full_out.result.name = rss_out.result.name
        /\ full_out.result.urls = rss_out.result.urls
        /\ SelectSeq(full_out.reqs, IsFeedRequest) = rss_out.reqs
        /\ (full_out.result.method = "rss") <=> (rss_out.result.method = "rss")
        /\ rss_out.result.screenshots = <<>>
        /\ full_out.result.method \in {"None", "rss", "screenshot", "failed"}
        /\ rss_out.result.method \in {"None", "rss", "no_feed"}
        /\ bpc = "returned" => /\ full_out.result.method # "None"
                               /\ rss_out.result.method # "None"

C17_Witness ==
    /\ bpc = "returned"
    /\ Len(both_urls) = 2
    /\ full_out.result.method = "rss"
    /\ rss_out.result.method = "rss"
    /\ full_out.result.screenshots # <<>>
    /\ Len(full_out.result.new_entries) = 2
    /\ Len(rss_out.reqs) > 2
    /\ Len(full_out.reqs) > Len(rss_out.reqs)

(***************************************************************************)
(* _clean_summary.  A summary is a sequence of pieces: a tag, n whitespace *)
(* characters or n characters of text.                                     *)
(***************************************************************************)
Piece(kind, n) == [kind |-> kind, n |-> n]

Markup == Piece("tag", 1)

Whitespace(n) == Piece("space", n)

Word(n) == Piece("word", n)

\* "if len(clean) > 300", "clean[:300]"
SUMMARY_LIMIT == 300

\* "..."
ELLIPSIS == Piece("dots", 3)

RECURSIVE Length(_)
Length(ps) == IF ps = <<>> THEN 0 ELSE Head(ps).n + Length(Tail(ps))

\* BeautifulSoup(text).get_text(separator=" "): the text between the tags,
\* joined by one space
RECURSIVE join_text_nodes(_, _, _)
join_text_nodes(ps, out, pending) ==
    IF ps = <<>> THEN out
    ELSE IF Head(ps).kind = "tag" THEN join_text_nodes(Tail(ps), out, out # <<>>)
    ELSE join_text_nodes(Tail(ps),
                         (IF pending THEN Append(out, Whitespace(1)) ELSE out)
                             \o << Head(ps) >>,
                         FALSE)

get_text(ps) == join_text_nodes(ps, <<>>, FALSE)

RECURSIVE lstrip_whitespace(_)
lstrip_whitespace(ps) ==
    IF ps # <<>> /\ Head(ps).kind = "space" THEN lstrip_whitespace(Tail(ps)) ELSE ps

RECURSIVE rstrip_whitespace(_)
rstrip_whitespace(ps) ==
    IF ps # <<>> /\ ps[Len(ps)].kind = "space"
    THEN rstrip_whitespace(SubSeq(ps, 1, Len(ps) - 1)) ELSE ps

\* str.strip() of a summary
strip_whitespace(ps) == rstrip_whitespace(lstrip_whitespace(ps))

\* re.sub(r"\s+", " ", clean)
RECURSIVE sub_whitespace(_, _)
sub_whitespace(ps, out) ==
    IF ps = <<>> THEN out
    ELSE IF Head(ps).kind # "space" THEN sub_whitespace(Tail(ps), Append(out, Head(ps)))
    ELSE IF out # <<>> /\ out[Len(out)].kind = "space" THEN sub_whitespace(Tail(ps), out)
    ELSE sub_whitespace(Tail(ps), Append(out, Whitespace(1)))

\* clean[:k]
RECURSIVE take(_, _)
take(ps, k) ==
    IF ps = <<>> \/ k <= 0 THEN <<>>
    ELSE IF Head(ps).n <= k THEN << Head(ps) >> \o take(Tail(ps), k - Head(ps).n)
    ELSE << [Head(ps) EXCEPT !.n = k] >>

\* "if len(clean) > 300: clean = clean[:300] + '...'"
\* variant: the test is >=
truncate_at_limit(ps) ==
    IF Length(ps) >= SUMMARY_LIMIT THEN Append(take(ps, SUMMARY_LIMIT), ELLIPSIS) ELSE ps

truncate(ps) ==
    IF Length(ps) > SUMMARY_LIMIT THEN Append(take(ps, SUMMARY_LIMIT), ELLIPSIS) ELSE ps

clean_summary(ps) == truncate(sub_whitespace(strip_whitespace(get_text(ps)), <<>>))

Pieces == {Markup, Whitespace(1), Whitespace(3), Word(1), Word(298), Word(300)}

RawSummaries == SeqsUpTo(Pieces, MaxPieces)

InitSummary ==
    /\ ParseIdle
    /\ FilterIdle
    /\ CrawlIdle
    /\ SessionIdle
    /\ LocateIdle
    /\ ModesIdle
    /\ text \in RawSummaries
    /\ clean = <<>>
    /\ mpc = "get_text"

SummaryFrame ==
    /\ UNCHANGED text
    /\ UNCHANGED <<parseVars, filterVars, crawlVars, sessionVars, locateVars, modesVars>>

\* clean = BeautifulSoup(text, "html.parser").get_text(separator=" ").strip()
GetText ==
    /\ mpc = "get_text"
    /\ clean' = strip_whitespace(get_text(text))
    /\ mpc' = "sub"
    /\ SummaryFrame

\* clean = re.sub(r"\s+", " ", clean)
SubWhitespace ==
    /\ mpc = "sub"
    /\ clean' = sub_whitespace(clean, <<>>)
    /\ mpc' = "truncate"
    /\ SummaryFrame

\* the if statement when it truncates, and the return
Truncate ==
    /\ mpc = "truncate"
    /\ truncate(clean) # clean
    /\ clean' = truncate(clean)
    /\ mpc' = "done"
    /\ SummaryFrame

\* the if statement when it does not, and the return
ReturnClean ==
    /\ mpc = "truncate"
    /\ truncate(clean) = clean
    /\ clean' = truncate(clean)
    /\ mpc' = "done"
    /\ SummaryFrame

NextSummary == GetText \/ SubWhitespace \/ Truncate \/ ReturnClean

SpecSummary == InitSummary /\ [][NextSummary]_vars

(***************************************************************************)
(* Summary claim.  The cleaned summary, as the claim describes it, is the  *)
(* raw summary's words in order with one space between two of them; a word *)
(* is a maximal run of text, ended by whitespace or by a tag.              *)
(***************************************************************************)
RECURSIVE WordLengths(_, _, _)
WordLengths(ps, out, inword) ==
    IF ps = <<>> THEN out
    ELSE IF Head(ps).kind # "word" THEN WordLengths(Tail(ps), out, FALSE)
    ELSE IF inword
         THEN WordLengths(Tail(ps), [out EXCEPT ![Len(out)] = @ + Head(ps).n], TRUE)
         ELSE WordLengths(Tail(ps), Append(out, Head(ps).n), TRUE)

RECURSIVE CleanedLength(_)
CleanedLength(ws) ==
    IF ws = <<>> THEN 0
    ELSE IF Len(ws) = 1 THEN ws[1]
    ELSE ws[1] + 1 + CleanedLength(Tail(ws))

\* the i-th character of the cleaned summary
RECURSIVE CleanedChar(_, _)
CleanedChar(ws, i) ==
    IF i <= ws[1] THEN "w"
    ELSE IF i = ws[1] + 1 THEN " "
    ELSE CleanedChar(Tail(ws), i - ws[1] - 1)

\* the i-th character of a sequence of pieces
RECURSIVE CharAt(_, _)
CharAt(ps, i) ==
    IF i <= Head(ps).n
    THEN (IF Head(ps).kind = "word" THEN "w"
          ELSE IF Head(ps).kind = "space" THEN " " ELSE ".")
    ELSE CharAt(Tail(ps), i - Head(ps).n)

\* C18: the cleaned summary is returned unchanged when it has at most 300
\* characters, and otherwise its first 300 characters followed by "...", 303
\* characters in all; no returned summary is longer than 303 characters or
\* has two whitespace characters in a row.
C18_SummaryTruncation ==
    mpc = "done" =>
        LET ws == WordLengths(text, <<>>, FALSE)
            n == CleanedLength(ws)
            m == Length(clean)
        IN  /\ clean = clean_summary(text)
            /\ m <= 303
            /\ \A i \in 1..(m - 1) : ~(CharAt(clean, i) = " " /\ CharAt(clean, i + 1) = " ")
            /\ n <= 300 =>
                  /\ m = n
                  /\ \A i \in 1..n : CharAt(clean, i) = CleanedChar(ws, i)
            /\ n > 300 =>
                  /\ m = 303
                  /\ \A i \in 1..300 : CharAt(clean, i) = CleanedChar(ws, i)
                  /\ \A i \in 301..303 : CharAt(clean, i) = "."

C18_Witness ==
    /\ mpc = "done"
    /\ text = << Markup, Word(1), Whitespace(3), Word(300) >>
    /\ clean = << Word(1), Whitespace(1), Word(298), ELLIPSIS >>
====
